---- MODULE Spec2Model ----
(***************************************************************************)
(* VWVCU (Vocaloid Wiki View Count Updater): the template extraction,      *)
(* the rounding policy, the reconciliation of one page and the page        *)
(* pipeline driver of main.js, with commafy and roundV of include/util.js. *)
(*                                                                         *)
(* Strings are sequences of one-character strings, so that the regular     *)
(* expressions, String.prototype.replace and the number formatting are     *)
(* computed on characters, as the code computes them.                      *)
(***************************************************************************)
EXTENDS Integers, Sequences, FiniteSets, TLC

VARIABLES
    pages,       \* run: the queue of page titles still to process
    pc,          \* run: position of the single control flow
    noEdit,      \* this._noEdit
    page,        \* run: the page taken from the queue
    content,     \* #processPage: the fetched markup
    newContent,  \* #processPage: the working document
    matches,     \* #processPage / #extractContent: the Match list
    mi,          \* #processPage: index of the Match whose adapter is awaited
    counts,      \* outcomes of the adapter calls of the current page so far
    written,     \* offsets in newContent of the text written by earlier Matches
    edit,        \* the edit request in flight, <<>> when none
    nEdits,      \* edit requests posted to the wiki, per title
    calls,       \* adapter calls issued in this run for the Matches of page
    viewsError,  \* #processMatch: the error caught by the step just taken
    listFile,    \* list.txt as written by this run
    exitCode,    \* status passed to exit(), -1 while the process runs
    warned,      \* provider codes warned about by #extractContent
    ex,          \* #extractContent: loop state (regex cursors, view queues)
    toks,        \* the templates the document under extraction was written from
    num,         \* input of roundV / commafy
    out          \* result of roundV / commafy

vars == <<pages, pc, noEdit, page, content, newContent, matches, mi, counts,
          written, edit, nEdits, calls, viewsError, listFile, exitCode, warned,
          ex, toks, num, out>>

(***************************************************************************)
(* Characters and strings                                                  *)
(***************************************************************************)
DigitChars == <<"0", "1", "2", "3", "4", "5", "6", "7", "8", "9">>

Digits == {DigitChars[i] : i \in 1..10}

Letters ==
    {"a", "b", "c", "d", "e", "f", "g", "h", "i", "j", "k", "l", "m",
     "n", "o", "p", "q", "r", "s", "t", "u", "v", "w", "x", "y", "z",
     "A", "B", "C", "D", "E", "F", "G", "H", "I", "J", "K", "L", "M",
     "N", "O", "P", "Q", "R", "S", "T", "U", "V", "W", "X", "Y", "Z"}

\* \w of a JavaScript regular expression
IsWord(c) == c \in Letters \cup Digits \cup {"_"}

\* the line terminator
NL == "\n"

\* \s of a JavaScript regular expression, on the characters of the model
IsSpace(c) == c \in {" ", "\t", NL}

\* s.startsWith(lit, i - 1): lit occurs in s at the 1-based position i
OccursAt(s, lit, i) ==
    /\ i >= 1
    /\ i + Len(lit) - 1 <= Len(s)
    /\ \A k \in 1..Len(lit) : s[i + k - 1] = lit[k]

\* s.slice(0, -k)
SliceEnd(s, k) == SubSeq(s, 1, Len(s) - k)

\* the first position >= i of s holding a character of stop, Len(s) + 1 if none
RECURSIVE RunEnd(_, _, _)
RunEnd(s, i, stop) ==
    IF i > Len(s) \/ s[i] \in stop THEN i ELSE RunEnd(s, i + 1, stop)

\* the first position >= i where lit occurs in s, 0 if none
RECURSIVE IndexOf(_, _, _)
IndexOf(s, lit, i) ==
    IF i + Len(lit) - 1 > Len(s) THEN 0
    ELSE IF OccursAt(s, lit, i) THEN i
    ELSE IndexOf(s, lit, i + 1)

(***************************************************************************)
(* JavaScript values: a non-negative integer m * 10^e, NaN, undefined      *)
(***************************************************************************)
Num(m, e) == [m |-> m, e |-> e]

IntVal(n) == Num(n, 0)

NaN == [nan |-> TRUE]

Undefined == [undef |-> TRUE]

IsNum(v) == DOMAIN v = {"m", "e"}

\* isNaN(v): ToNumber(undefined) is NaN
isNaN(v) == ~IsNum(v)

RECURSIVE Dec(_)
Dec(n) ==
    IF n < 10 THEN <<DigitChars[n + 1]>>
    ELSE Dec(n \div 10) \o <<DigitChars[(n % 10) + 1]>>

RECURSIVE Zeros(_)
Zeros(k) == IF k = 0 THEN <<>> ELSE <<"0">> \o Zeros(k - 1)

RECURSIVE StripZeros(_)
StripZeros(s) ==
    IF Len(s) > 1 /\ s[Len(s)] = "0" THEN StripZeros(SliceEnd(s, 1)) ELSE s

\* Number::toString switches to exponential notation from 10^21 on
ExpDigits == 21

\* String(v)
StringOf(v) ==
    IF v = Undefined THEN <<"u", "n", "d", "e", "f", "i", "n", "e", "d">>
    ELSE IF v = NaN THEN <<"N", "a", "N">>
    ELSE IF v.m = 0 THEN <<"0">>
    ELSE LET all == Dec(v.m) \o Zeros(v.e)
             sig == StripZeros(Dec(v.m))
         IN  IF Len(all) <= ExpDigits THEN all
             ELSE <<Head(sig)>>
                  \o (IF Len(sig) > 1 THEN <<".">> \o Tail(sig) ELSE <<>>)
                  \o <<"e", "+">> \o Dec(Len(all) - 1)

RECURSIVE Pow10(_)
Pow10(k) == IF k = 0 THEN 1 ELSE 10 * Pow10(k - 1)

\* the integer a (small) number value stands for
Value(v) == IF v.m = 0 THEN 0 ELSE v.m * Pow10(v.e)

(***************************************************************************)
(* include/util.js                                                         *)
(***************************************************************************)
\* the loop of commafy: i is the number of characters of str already placed
RECURSIVE commafyLoop(_, _, _)
commafyLoop(str, i, ret) ==
    IF i >= Len(str) THEN ret
    ELSE LET sep == IF i # 0 /\ i % 3 = 0 THEN <<",">> \o ret ELSE ret
         IN  commafyLoop(str, i + 1, <<str[Len(str) - i]>> \o sep)

commafy(v) ==
    IF isNaN(v) THEN <<"u", "n", "d", ",", "e", "f", "i", ",", "n", "e", "d">>
    ELSE commafyLoop(StringOf(v), 0, <<>>)

Unsupported == <<"u", "n", "s", "u", "p", "p", "o", "r", "t", "e", "d">>

\* mutant: Math.floor in place of Math.round
roundTensFloor(v) == StringOf(IntVal((Value(v) \div 10) * 10))

\* mutant: the product by ten is left out
roundTensUnscaled(v) == StringOf(IntVal((Value(v) + 5) \div 10))

\* String(Math.round(num / 10) * 10); Math.round rounds a half up
roundTens(v) == StringOf(IntVal(((Value(v) + 5) \div 10) * 10))

\* mutant: the three-character case computes num - num % 10
roundVArith(v) ==
    LET str == StringOf(v)
        len == Len(str)
    IN  CASE len = 1 -> str
          [] len = 2 -> roundTens(v)
          [] len = 3 -> IF IsNum(v)
                        THEN StringOf(IntVal(Value(v) - (Value(v) % 10)))
                        ELSE StringOf(NaN)
          [] len \in 4..6 -> SliceEnd(str, 2) \o <<"0", "0">>
          [] len \in 7..8 -> SliceEnd(str, 3) \o <<"0", "0", "0">>
          [] OTHER -> Unsupported

\* mutant: a value that is no number is 'unsupported'
roundVStrict(v) ==
    LET str == StringOf(v)
        len == Len(str)
    IN  IF isNaN(v) THEN Unsupported
        ELSE CASE len = 1 -> str
               [] len = 2 -> roundTens(v)
               [] len = 3 -> SliceEnd(str, 1) \o <<"0">>
               [] len \in 4..6 -> SliceEnd(str, 2) \o <<"0", "0">>
               [] len \in 7..8 -> SliceEnd(str, 3) \o <<"0", "0", "0">>
               [] OTHER -> Unsupported

roundV(v) ==
    LET str == StringOf(v)
        len == Len(str)
    IN  CASE len = 1 -> str
          [] len = 2 -> roundTens(v)
          [] len = 3 -> SliceEnd(str, 1) \o <<"0">>
          [] len \in 4..6 -> SliceEnd(str, 2) \o <<"0", "0">>
          [] len \in 7..8 -> SliceEnd(str, 3) \o <<"0", "0", "0">>
          [] OTHER -> Unsupported

(***************************************************************************)
(* main.js: the regular expressions                                        *)
(***************************************************************************)
\* the positions q >= p such that s[p..q-1] is whitespace only (\s*)
SpaceReach(s, p) ==
    {q \in p..(Len(s) + 1) : \A k \in p..(q - 1) : IsSpace(s[k])}

\* /\|\s*<field>\s*=\s*([^\n]+)\n/u matches somewhere in s
FieldRegexTest(s, field) ==
    \E i \in 1..Len(s) :
        /\ s[i] = "|"
        /\ \E a \in SpaceReach(s, i + 1) :
            /\ OccursAt(s, field, a)
            /\ \E b \in SpaceReach(s, a + Len(field)) :
                /\ b <= Len(s)
                /\ s[b] = "="
                /\ \E c \in SpaceReach(s, b + 1) :
                    LET d == RunEnd(s, c, {NL})
                    IN  d > c /\ d <= Len(s)

VIEWS_REGEX(s) == FieldRegexTest(s, <<"v", "i", "e", "w", "s">>)

LINKS_REGEX(s) == FieldRegexTest(s, <<"l", "i", "n", "k", "s">>)

NoMatch == [found |-> FALSE, lastIndex |-> 0]

\* /\{\{v\|(\w{2})\|([^}]+)\}\}/ anchored at the 1-based position i
ViewMatchAt(s, i) ==
    LET r == RunEnd(s, i + 7, {"}"})
    IN  IF /\ OccursAt(s, <<"{", "{", "v", "|">>, i)
           /\ i + 6 <= Len(s)
           /\ IsWord(s[i + 4]) /\ IsWord(s[i + 5])
           /\ s[i + 6] = "|"
           /\ r > i + 7
           /\ OccursAt(s, <<"}", "}">>, r)
        THEN [found |-> TRUE, provider |-> SubSeq(s, i + 4, i + 5),
              value |-> SubSeq(s, i + 7, r - 1), lastIndex |-> r + 1]
        ELSE NoMatch

\* /\{\{l\|(\w{2})\|([^}|]+)(?:\|([^}]+))?\}\}/ anchored at position i
LinkMatchAt(s, i) ==
    LET r == RunEnd(s, i + 7, {"}", "|"})
        r2 == RunEnd(s, r + 1, {"}"})
        e == IF r <= Len(s) /\ s[r] = "|" /\ r2 > r + 1 THEN r2 ELSE r
    IN  IF /\ OccursAt(s, <<"{", "{", "l", "|">>, i)
           /\ i + 6 <= Len(s)
           /\ IsWord(s[i + 4]) /\ IsWord(s[i + 5])
           /\ s[i + 6] = "|"
           /\ r > i + 7
           /\ OccursAt(s, <<"}", "}">>, e)
        THEN [found |-> TRUE, provider |-> SubSeq(s, i + 4, i + 5),
              link |-> SubSeq(s, i + 7, r - 1), lastIndex |-> e + 1]
        ELSE NoMatch

\* regex.exec(s) of a global regex whose lastIndex (0-based) is from: the
\* leftmost match starting at or after it; no match sets lastIndex to 0
RECURSIVE ViewExecFrom(_, _)
ViewExecFrom(s, i) ==
    IF i > Len(s) THEN NoMatch
    ELSE IF ViewMatchAt(s, i).found THEN ViewMatchAt(s, i)
    ELSE ViewExecFrom(s, i + 1)

VIEW_REGEX(s, from) == ViewExecFrom(s, from + 1)

RECURSIVE LinkExecFrom(_, _)
LinkExecFrom(s, i) ==
    IF i > Len(s) THEN NoMatch
    ELSE IF LinkMatchAt(s, i).found THEN LinkMatchAt(s, i)
    ELSE LinkExecFrom(s, i + 1)

LINK_REGEX(s, from) == LinkExecFrom(s, from + 1)

(***************************************************************************)
(* main.js: #extractContent                                                *)
(***************************************************************************)
\* this[`_${code}`]: the provider codes with an adapter method
AdapterNames ==
    {<<"b", "b">>, <<"n", "n">>, <<"p", "p">>,
     <<"s", "c">>, <<"v", "m">>, <<"y", "t">>}

\* mutant: every two-letter code is taken for a provider
HasAdapterAny(code) == TRUE

HasAdapter(code) == code \in AdapterNames

\* mutant: the alternative \|.* is left out of the pattern
RECURSIVE StripFromKeepsPipe(_, _)
StripFromKeepsPipe(s, i) ==
    IF i > Len(s) THEN <<>>
    ELSE IF s[i] \in {",", "."} \/ IsSpace(s[i])
    THEN StripFromKeepsPipe(s, i + 1)
    ELSE <<s[i]>> \o StripFromKeepsPipe(s, i + 1)

\* text.replace(/,|\.|\s|\|.*/gu, ''), from position i on; the dot of the
\* last alternative stops at a line terminator
RECURSIVE StripFrom(_, _)
StripFrom(s, i) ==
    IF i > Len(s) THEN <<>>
    ELSE IF s[i] \in {",", "."} \/ IsSpace(s[i]) THEN StripFrom(s, i + 1)
    ELSE IF s[i] = "|" THEN StripFrom(s, RunEnd(s, i + 1, {NL}))
    ELSE <<s[i]>> \o StripFrom(s, i + 1)

StripValue(s) == StripFrom(s, 1)

RECURSIVE DigitsValue(_)
DigitsValue(s) ==
    IF s = <<>> THEN 0
    ELSE 10 * DigitsValue(SliceEnd(s, 1))
         + (CHOOSE d \in 0..9 : DigitChars[d + 1] = s[Len(s)])

\* Number(s) for s without whitespace and without "." (line 232 removes
\* both): the empty string is 0, a string of decimal digits is its value
\* (kept as mantissa and power of ten from ten digits on), digits with an
\* exponent e+x or ex are the digits times 10^x, and the other strings over
\* the letters, digits and template punctuation used in the documents here
\* are NaN (signs, negative exponents, radix prefixes and "Infinity" are
\* not among them)
ToNumber(s) ==
    LET i == IndexOf(s, <<"e">>, 1)
        x == IF i # 0 /\ i < Len(s) /\ s[i + 1] = "+" THEN i + 2 ELSE i + 1
        D == SubSeq(s, 1, i - 1)
        X == SubSeq(s, x, Len(s))
    IN  IF \A k \in 1..Len(s) : s[k] \in Digits
        THEN IF Len(s) <= 9 THEN IntVal(DigitsValue(s))
             ELSE Num(DigitsValue(StripZeros(s)), Len(s) - Len(StripZeros(s)))
        ELSE IF /\ i > 1
                /\ x <= Len(s)
                /\ \A k \in 1..Len(D) : D[k] \in Digits
                /\ \A k \in 1..Len(X) : X[k] \in Digits
        THEN Num(DigitsValue(D), DigitsValue(X))
        ELSE NaN

\* views[provider] = views[provider] || []; views[provider].push(v)
PushView(views, provider, v) ==
    [p \in DOMAIN views \cup {provider} |->
        IF p = provider
        THEN (IF p \in DOMAIN views THEN views[p] ELSE <<>>) \o <<v>>
        ELSE views[p]]

\* mutant: queue.pop() in place of queue.shift()
ShiftValueLast(queue) == IF queue = <<>> THEN Undefined ELSE queue[Len(queue)]

\* queue.shift(): undefined on an empty array
ShiftValue(queue) == IF queue = <<>> THEN Undefined ELSE Head(queue)

ShiftRest(queue) == IF queue = <<>> THEN <<>> ELSE Tail(queue)

ExStart ==
    [phase |-> "start", viewIndex |-> 0, linkIndex |-> 0,
     views |-> <<>>, matches |-> <<>>, warned |-> <<>>]

\* mutant: the templates are scanned whatever the markers
extractGuardNone(st, s) == [st EXCEPT !.phase = "views"]

\* mutant: && in place of ||
extractGuardEither(st, s) ==
    IF ~VIEWS_REGEX(s) /\ ~LINKS_REGEX(s)
    THEN [st EXCEPT !.phase = "done"]
    ELSE [st EXCEPT !.phase = "views"]

\* lines 220-222: the two field markers
extractGuard(st, s) ==
    IF ~VIEWS_REGEX(s) \/ ~LINKS_REGEX(s)
    THEN [st EXCEPT !.phase = "done"]
    ELSE [st EXCEPT !.phase = "views"]

\* lines 227-235: one iteration of the {{v}} loop
viewIteration(st, s) ==
    LET res3 == VIEW_REGEX(s, st.viewIndex)
    IN  IF ~res3.found
        THEN [st EXCEPT !.phase = "links", !.viewIndex = 0]
        ELSE IF HasAdapter(res3.provider)
        THEN [st EXCEPT
                !.viewIndex = res3.lastIndex,
                !.views = PushView(st.views, res3.provider,
                                   ToNumber(StripValue(res3.value)))]
        ELSE [st EXCEPT !.viewIndex = res3.lastIndex]

\* lines 236-248: one iteration of the {{l}} loop
linkIteration(st, s) ==
    LET res4 == LINK_REGEX(s, st.linkIndex)
    IN  IF ~res4.found
        THEN [st EXCEPT !.phase = "done", !.linkIndex = 0]
        ELSE IF HasAdapter(res4.provider) /\ res4.provider \in DOMAIN st.views
        THEN [st EXCEPT
                !.linkIndex = res4.lastIndex,
                !.matches = Append(st.matches,
                    [link |-> res4.link, provider |-> res4.provider,
                     views |-> ShiftValue(st.views[res4.provider])]),
                !.views[res4.provider] = ShiftRest(st.views[res4.provider])]
        ELSE IF HasAdapter(res4.provider)
        THEN [st EXCEPT !.linkIndex = res4.lastIndex,
                        !.warned = Append(st.warned, res4.provider)]
        ELSE [st EXCEPT !.linkIndex = res4.lastIndex]

extractStep(st, s) ==
    CASE st.phase = "start" -> extractGuard(st, s)
      [] st.phase = "views" -> viewIteration(st, s)
      [] st.phase = "links" -> linkIteration(st, s)
      [] OTHER -> st

RECURSIVE extractRun(_, _)
extractRun(st, s) ==
    IF st.phase = "done" THEN st ELSE extractRun(extractStep(st, s), s)

\* #extractContent(content): the Match list and the warnings logged
extractContent(s) == extractRun(ExStart, s)

(***************************************************************************)
(* Documents: a views field and a links field holding templates            *)
(***************************************************************************)
VTok(p, t) == [k |-> "v", p |-> p, t |-> t]

LTok(p, id) == [k |-> "l", p |-> p, t |-> id]

\* the text of one template
Render(tok) ==
    <<"{", "{", tok.k, "|">> \o tok.p \o <<"|">> \o tok.t \o <<"}", "}">>

RECURSIVE RenderAll(_)
RenderAll(ts) ==
    IF ts = <<>> THEN <<>> ELSE Render(Head(ts)) \o RenderAll(Tail(ts))

ViewsField == <<"|", "v", "i", "e", "w", "s", "=">>

LinksField == <<"|", "l", "i", "n", "k", "s", "=">>

\* the templates vs on the views line and ls on the links line
Doc(vs, ls) ==
    ViewsField \o RenderAll(vs) \o <<NL>>
        \o LinksField \o RenderAll(ls) \o <<NL>>

YT == <<"y", "t">>

NN == <<"n", "n">>

XX == <<"x", "x">>

BB == <<"b", "b">>

(***************************************************************************)
(* main.js: #processMatch                                                  *)
(***************************************************************************)
\* `{{v|${provider}|${commafy(views)}}}`
ViewTemplate(provider, v) ==
    <<"{", "{", "v", "|">> \o provider \o <<"|">> \o commafy(v) \o <<"}", "}">>

\* the last position <= i where lit occurs in s, 0 if none
RECURSIVE LastIndexOf(_, _, _)
LastIndexOf(s, lit, i) ==
    IF i < 1 THEN 0
    ELSE IF OccursAt(s, lit, i) THEN i
    ELSE LastIndexOf(s, lit, i - 1)

\* mutant: the last occurrence is replaced
ReplaceLast(s, old, new) ==
    LET i == LastIndexOf(s, old, Len(s))
    IN  IF i = 0 THEN s
        ELSE SubSeq(s, 1, i - 1) \o new \o SubSeq(s, i + Len(old), Len(s))

\* s.replace(old, new) with a string pattern: the first occurrence only
\* (new holds no "$", so no replacement pattern is expanded)
ReplaceFirst(s, old, new) ==
    LET i == IndexOf(s, old, 1)
    IN  IF i = 0 THEN s
        ELSE SubSeq(s, 1, i - 1) \o new \o SubSeq(s, i + Len(old), Len(s))

\* mutant: the counts themselves are compared
SameCount(views, count) == views = count

\* roundV(views) === roundV(count)
SameBucket(views, count) == roundV(views) = roundV(count)

\* lines 165-179: the document returned when the adapter returned count
processMatch(doc, match, count) ==
    IF SameBucket(match.views, count) THEN doc
    ELSE ReplaceFirst(doc, ViewTemplate(match.provider, match.views),
                      ViewTemplate(match.provider, count))

\* where the replacement of processMatch lands in doc, 0 if nowhere
ReplacedAt(doc, match, count) ==
    IF SameBucket(match.views, count) THEN 0
    ELSE IndexOf(doc, ViewTemplate(match.provider, match.views), 1)

\* the offsets of earlier written text after a replacement at i that
\* changes the length by delta, with i added
ShiftWritten(w, i, delta) ==
    {IF x > i THEN x + delta ELSE x : x \in w} \cup {i}

(***************************************************************************)
(* The pages of the wiki and the answers of the providers                  *)
(***************************************************************************)
NumPages == 2

Titles == 1..NumPages

PageDocs ==
    { Doc(<<VTok(YT, <<"9", "9", "9">>)>>, <<LTok(YT, <<"a", "b", "c">>)>>),
      Doc(<<VTok(YT, <<"1", ",", "4", "5", "0">>)>>, <<LTok(YT, <<"a">>)>>),
      Doc(<<VTok(YT, <<"9", "9", "9">>),
            VTok(YT, <<"1", ",", "4", "5", "0">>)>>,
          <<LTok(YT, <<"a">>), LTok(YT, <<"b">>)>>),
      Doc(<<VTok(YT, <<"9", "9", "9">>), VTok(YT, <<"9", "9", "9">>)>>,
          <<LTok(YT, <<"a">>), LTok(YT, <<"b">>)>>),
      Doc(<<VTok(YT, <<"1", "4", "5", "0">>)>>, <<LTok(YT, <<"a">>)>>),
      Doc(<<VTok(YT, <<"9", "9", "9">>)>>,
          <<LTok(YT, <<"a">>), LTok(YT, <<"b">>)>>),
      Doc(<<VTok(XX, <<"9">>)>>, <<LTok(XX, <<"a">>)>>),
      Doc(<<VTok(BB, <<"9", "9", "9">>)>>, <<LTok(BB, <<"a", "u", "1">>)>>),
      Doc(<<VTok(YT, <<"x">>)>>, <<LTok(YT, <<"a">>)>>),
      Doc(<<VTok(NN, <<"9", "9", "9", "|", "x">>),
            VTok(NN, <<"9", "9", "9">>)>>,
          <<LTok(NN, <<"a">>), LTok(NN, <<"b">>)>>) }

\* the counts a provider may report
Counts ==
    {IntVal(7), IntVal(995), IntVal(999), IntVal(1450), IntVal(1499),
     IntVal(123456789)}

\* mutant: the audio prefix is looked for at the end of the id
IsAudioSuffix(match) ==
    /\ match.provider = <<"b", "b">>
    /\ OccursAt(match.link, <<"a", "u">>, Len(match.link) - 1)

\* _bb returns the recorded views for an audio id, without a request
IsAudio(match) ==
    match.provider = <<"b", "b">> /\ OccursAt(match.link, <<"a", "u">>, 1)

Failed(kind) == [failed |-> kind]

NoFile == [exists |-> FALSE, titles |-> <<>>]

\* list.txt after writeFile('list.txt', titles.join('\n')): a title per line
File(titles) == [exists |-> TRUE, titles |-> titles]

\* writeFile rejects only while the page was started at most MaxRestarts
\* times, which keeps the number of calls finite
MaxRestarts == 1

\* this[`_${provider}`](link, views, tokens) is called for the Match i of
\* the page: c[i] is the number of calls for that Match so far
Issue(c, i) == IF i <= Len(c) THEN [c EXCEPT ![i] = @ + 1] ELSE Append(c, 1)

\* the value caught by catch (viewsError): its message, its code and the
\* code of its response, when it has one
NoResponse == [present |-> FALSE, code |-> 0]

Response(code) == [present |-> TRUE, code |-> code]

Error(message, code, response) ==
    [caught |-> TRUE, message |-> message, code |-> code,
     response |-> response]

NoError ==
    [caught |-> FALSE, message |-> <<>>, code |-> "", response |-> NoResponse]

DailyLimit ==
    <<"D", "a", "i", "l", "y", " ", "L", "i", "m", "i", "t", " ", "E", "x",
    "c", "e", "e", "d", "e", "d">>

QuotaWord == <<"q", "u", "o", "t", "a">>

\* String.prototype.startsWith and String.prototype.includes
startsWith(s, t) == OccursAt(s, t, 1)

includes(s, t) == \E i \in 1..Len(s) : OccursAt(s, t, i)

\* mutant: any response code counts for the quota
IsQuotaErrorAnyCode(e) ==
    \/ /\ e.message # <<>>
       /\ startsWith(e.message, DailyLimit) \/ includes(e.message, QuotaWord)
    \/ e.response.present

\* mutant: the first literal is looked for anywhere in the message
IsQuotaErrorIncludes(e) ==
    \/ /\ e.message # <<>>
       /\ includes(e.message, DailyLimit) \/ includes(e.message, QuotaWord)
    \/ e.response.present /\ e.response.code = 403

\* lines 181-188: the test of the catch block
IsQuotaError(e) ==
    \/ /\ e.message # <<>>
       /\ startsWith(e.message, DailyLimit) \/ includes(e.message, QuotaWord)
    \/ e.response.present /\ e.response.code = 403

\* the errors an adapter call may throw
Errors ==
    { Error(DailyLimit \o <<".">>, "", NoResponse),
      Error(<<"n", "o", " ">> \o QuotaWord, "", NoResponse),
      Error(<<"F", "o", "r", "b">>, "ERR_NON_2XX_3XX_RESPONSE",
            Response(403)),
      Error(<<"N", "o", "t">>, "ERR_NON_2XX_3XX_RESPONSE", Response(404)),
      Error(<<"n", "o", " ">> \o DailyLimit, "", NoResponse),
      Error(<<"Q", "u", "o", "t", "a">>, "", NoResponse),
      Error(<<>>, "", NoResponse) }

(***************************************************************************)
(* main.js: run, #processPage, #doEdit                                     *)
(***************************************************************************)
Idle == /\ ex = ExStart
        /\ toks = <<>>
        /\ num = IntVal(0)
        /\ out = <<>>

Init ==
    /\ pages = [i \in 1..NumPages |-> i]
    /\ pc = "loop"
    /\ noEdit \in BOOLEAN
    /\ page = 0
    /\ content = <<>>
    /\ newContent = <<>>
    /\ matches = <<>>
    /\ mi = 1
    /\ counts = <<>>
    /\ written = {}
    /\ edit = <<>>
    /\ nEdits = [t \in Titles |-> 0]
    /\ calls = <<>>
    /\ viewsError = NoError
    /\ listFile = NoFile
    /\ exitCode = -1
    /\ warned = <<>>
    /\ Idle

\* mutant: pages[0] in place of pages.shift()
ShiftKeepsQueue ==
    /\ pc = "loop"
    /\ pages # <<>>
    /\ page' = Head(pages)
    /\ pc' = "getPage"
    /\ content' = <<>>
    /\ newContent' = <<>>
    /\ matches' = <<>>
    /\ mi' = 1
    /\ counts' = <<>>
    /\ written' = {}
    /\ warned' = <<>>
    /\ calls' = <<>>
    /\ viewsError' = NoError
    /\ UNCHANGED <<pages, noEdit, edit, nEdits, listFile, exitCode, ex, toks,
                   num, out>>

\* lines 81-85: pages.shift() and the call of #processPage
Shift ==
    /\ pc = "loop"
    /\ pages # <<>>
    /\ page' = Head(pages)
    /\ pages' = Tail(pages)
    /\ pc' = "getPage"
    /\ content' = <<>>
    /\ newContent' = <<>>
    /\ matches' = <<>>
    /\ mi' = 1
    /\ counts' = <<>>
    /\ written' = {}
    /\ warned' = <<>>
    /\ calls' = IF Head(pages) = page THEN calls ELSE <<>>
    /\ viewsError' = NoError
    /\ UNCHANGED <<noEdit, edit, nEdits, listFile, exitCode, ex, toks, num,
                   out>>

\* lines 81, 90: the queue is empty
Finish ==
    /\ pc = "loop"
    /\ pages = <<>>
    /\ pc' = "finished"
    /\ viewsError' = NoError
    /\ UNCHANGED <<pages, noEdit, page, content, newContent, matches, mi,
                   counts, written, edit, nEdits, calls, listFile, exitCode,
                   warned, ex, toks, num, out>>

\* mutant: a failed fetch ends the run
FetchFailsStops ==
    /\ pc = "getPage"
    /\ pc' = "finished"
    /\ viewsError' = NoError
    /\ UNCHANGED <<pages, noEdit, page, content, newContent, matches, mi,
                   counts, written, edit, nEdits, calls, listFile, exitCode,
                   warned, ex, toks, num, out>>

\* lines 120-130 and 86-88: the query answers with an error or a missing
\* page, or the request fails and run logs the exception
FetchFails ==
    /\ pc = "getPage"
    /\ pc' = "loop"
    /\ viewsError' = NoError
    /\ UNCHANGED <<pages, noEdit, page, content, newContent, matches, mi,
                   counts, written, edit, nEdits, calls, listFile, exitCode,
                   warned, ex, toks, num, out>>

\* mutant: #doEdit posts whatever this._noEdit says
AfterMatchesIgnoresFlag(doc) ==
    IF doc = content
    THEN /\ pc' = "loop"
         /\ UNCHANGED <<edit, nEdits>>
    ELSE /\ pc' = "edit"
         /\ edit' = [title |-> page, text |-> doc]
         /\ nEdits' = [nEdits EXCEPT ![page] = @ + 1]

\* mutant: #doEdit is called without await
AfterMatchesNoAwait(doc) ==
    /\ pc' = "loop"
    /\ IF doc = content \/ noEdit
       THEN UNCHANGED <<edit, nEdits>>
       ELSE /\ edit' = [title |-> page, text |-> doc]
            /\ nEdits' = [nEdits EXCEPT ![page] = @ + 1]

\* mutant: the edit is posted without the comparison
AfterMatchesAlways(doc) ==
    IF noEdit
    THEN /\ pc' = "loop"
         /\ UNCHANGED <<edit, nEdits>>
    ELSE /\ pc' = "edit"
         /\ edit' = [title |-> page, text |-> doc]
         /\ nEdits' = [nEdits EXCEPT ![page] = @ + 1]

\* lines 143-147 and 398-412: after the last Match, the comparison and the
\* edit request
AfterMatches(doc) ==
    IF doc = content \/ noEdit
    THEN /\ pc' = "loop"
         /\ UNCHANGED <<edit, nEdits>>
    ELSE /\ pc' = "edit"
         /\ edit' = [title |-> page, text |-> doc]
         /\ nEdits' = [nEdits EXCEPT ![page] = @ + 1]

\* lines 131-142: the markup arrives, the Matches are extracted and the
\* first adapter is called
FetchContent ==
    /\ pc = "getPage"
    /\ \E doc \in PageDocs :
        LET got == extractContent(doc)
        IN  /\ content' = doc
            /\ newContent' = doc
            /\ matches' = got.matches
            /\ warned' = got.warned
            /\ pc' = IF got.matches = <<>> THEN "loop" ELSE "adapter"
            /\ calls' = IF got.matches = <<>> THEN calls
                        ELSE Issue(calls, 1)
    /\ viewsError' = NoError
    /\ UNCHANGED <<pages, noEdit, page, mi, counts, written, edit, nEdits,
                   listFile, exitCode, ex, toks, num, out>>

\* lines 138-142: the next Match's adapter is called, or the loop ends
NextMatch(doc) ==
    /\ newContent' = doc
    /\ mi' = mi + 1
    /\ IF mi < Len(matches)
       THEN /\ pc' = "adapter"
            /\ calls' = Issue(calls, mi + 1)
            /\ UNCHANGED <<edit, nEdits>>
       ELSE /\ AfterMatches(doc)
            /\ UNCHANGED calls

\* lines 165-179: the adapter returns a count
AdapterReturns ==
    /\ pc = "adapter"
    /\ \E count \in (IF IsAudio(matches[mi]) THEN {matches[mi].views}
                     ELSE Counts) :
        LET at == ReplacedAt(newContent, matches[mi], count)
            doc == processMatch(newContent, matches[mi], count)
        IN  /\ counts' = Append(counts, count)
            /\ written' = IF at = 0 THEN written
                          ELSE ShiftWritten(written \ {at}, at,
                                            Len(doc) - Len(newContent))
            /\ NextMatch(doc)
    /\ viewsError' = NoError
    /\ UNCHANGED <<pages, noEdit, page, content, matches, listFile, exitCode,
                   warned, ex, toks, num, out>>

\* mutant: a failed adapter call ends the processing of the page
AdapterFailsAborts ==
    /\ pc = "adapter"
    /\ ~IsAudio(matches[mi])
    /\ \E e \in Errors : ~IsQuotaError(e) /\ viewsError' = e
    /\ counts' = Append(counts, Failed("error"))
    /\ pc' = "loop"
    /\ UNCHANGED <<pages, noEdit, page, content, newContent, matches, mi,
                   written, edit, nEdits, calls, listFile, exitCode, warned, ex,
                   toks, num, out>>

\* lines 180-188, 196-209: the adapter fails, and not for the quota
AdapterFails ==
    /\ pc = "adapter"
    /\ ~IsAudio(matches[mi])
    /\ \E e \in Errors : ~IsQuotaError(e) /\ viewsError' = e
    /\ counts' = Append(counts, Failed("error"))
    /\ NextMatch(newContent)
    /\ UNCHANGED <<pages, noEdit, page, content, matches, written, listFile,
                   exitCode, warned, ex, toks, num, out>>

\* mutant: pages.push(page) in place of pages.unshift(page)
AdapterQuotaPush ==
    /\ pc = "adapter"
    /\ ~IsAudio(matches[mi])
    /\ \E e \in Errors : IsQuotaError(e) /\ viewsError' = e
    /\ counts' = Append(counts, Failed("quota"))
    /\ pages' = Append(pages, page)
    /\ pc' = "writeFile"
    /\ UNCHANGED <<noEdit, page, content, newContent, matches, mi, written,
                   edit, nEdits, calls, listFile, exitCode, warned, ex, toks,
                   num, out>>

\* lines 180-190: the adapter fails for the quota: the page goes back to
\* the head of the queue and list.txt is written
AdapterQuota ==
    /\ pc = "adapter"
    /\ ~IsAudio(matches[mi])
    /\ \E e \in Errors : IsQuotaError(e) /\ viewsError' = e
    /\ counts' = Append(counts, Failed("quota"))
    /\ pages' = <<page>> \o pages
    /\ pc' = "writeFile"
    /\ UNCHANGED <<noEdit, page, content, newContent, matches, mi, written,
                   edit, nEdits, calls, listFile, exitCode, warned, ex, toks,
                   num, out>>

\* lines 190-195: list.txt is written and the process exits
WriteDone ==
    /\ pc = "writeFile"
    /\ listFile' = File(pages)
    /\ exitCode' = 0
    /\ pc' = "exited"
    /\ UNCHANGED <<pages, noEdit, page, content, newContent, matches, mi,
                   counts, written, edit, nEdits, calls, viewsError, warned, ex,
                   toks, num, out>>

\* lines 190 and 86-88: writeFile rejects; the exception leaves
\* #processMatch and #processPage and run logs it
WriteFails ==
    /\ pc = "writeFile"
    /\ calls[1] <= MaxRestarts
    /\ pc' = "loop"
    /\ viewsError' = NoError
    /\ UNCHANGED <<pages, noEdit, page, content, newContent, matches, mi,
                   counts, written, edit, nEdits, calls, listFile, exitCode,
                   warned, ex, toks, num, out>>

\* lines 413-425: the edit request settles, with or without an error
EditSettles ==
    /\ pc = "edit"
    /\ pc' = "loop"
    /\ edit' = <<>>
    /\ viewsError' = NoError
    /\ UNCHANGED <<pages, noEdit, page, content, newContent, matches, mi,
                   counts, written, nEdits, calls, listFile, exitCode, warned,
                   ex, toks, num, out>>

Next ==
    \/ Shift
    \/ Finish
    \/ FetchFails
    \/ FetchContent
    \/ AdapterReturns
    \/ AdapterFails
    \/ AdapterQuota
    \/ WriteDone
    \/ WriteFails
    \/ EditSettles

Spec == Init /\ [][Next]_vars

\* the loop goes on while it can, and every awaited request (the fetch, the
\* adapter call, the write of list.txt, the edit) settles
FairSpec ==
    /\ Spec
    /\ WF_vars(Shift)
    /\ WF_vars(Finish)
    /\ WF_vars(FetchFails \/ FetchContent)
    /\ WF_vars(AdapterFails \/ AdapterQuota \/ AdapterReturns)
    /\ WF_vars(WriteDone \/ WriteFails)
    /\ WF_vars(EditSettles)

(***************************************************************************)
(* #extractContent alone, one loop iteration at a time, on the documents   *)
(* written from at most MaxTemplates templates                             *)
(***************************************************************************)
MaxTemplates == 4

TemplateSet ==
    { VTok(YT, <<"9", "9", "9">>), VTok(YT, <<"1", ",", "4", "5", "0">>),
      VTok(NN, <<"1", ".", "2", " ", "|", "x", NL, "8">>), VTok(XX, <<"9">>),
      LTok(YT, <<"a">>), LTok(YT, <<"b">>), LTok(NN, <<"a">>),
      LTok(XX, <<"a">>) }

\* the first half of the templates is on the views line, the rest on the
\* links line
Half(ts) == (Len(ts) + 1) \div 2

DocOf(ts) ==
    Doc(SubSeq(ts, 1, Half(ts)), SubSeq(ts, Half(ts) + 1, Len(ts)))

\* documents lacking a field marker or the end of the last line
Bare(ts) == RenderAll(ts) \o <<NL>>

ViewsOnly(ts) == ViewsField \o RenderAll(ts) \o <<NL>>

LinksOnly(ts) == LinksField \o RenderAll(ts) \o <<NL>>

Unterminated(ts) == SliceEnd(DocOf(ts), 1)

\* the documents written from ts: the two-field document, and for two
\* templates the documents lacking something as well
Shapes(ts) ==
    IF Len(ts) = 2
    THEN {DocOf(ts), Bare(ts), ViewsOnly(ts), LinksOnly(ts), Unterminated(ts)}
    ELSE {DocOf(ts)}

PipelineIdle ==
    /\ pages = <<>>
    /\ noEdit = FALSE
    /\ page = 0
    /\ newContent = <<>>
    /\ matches = <<>>
    /\ mi = 1
    /\ counts = <<>>
    /\ written = {}
    /\ edit = <<>>
    /\ nEdits = [t \in Titles |-> 0]
    /\ calls = <<>>
    /\ viewsError = NoError
    /\ listFile = NoFile
    /\ exitCode = -1
    /\ warned = <<>>

InitExtract ==
    /\ toks \in UNION {[1..n -> TemplateSet] : n \in 0..MaxTemplates}
    /\ content \in Shapes(toks)
    /\ ex = ExStart
    /\ num = IntVal(0)
    /\ out = <<>>
    /\ pc = "extract"
    /\ PipelineIdle

ExtractKeeps ==
    UNCHANGED <<pages, pc, noEdit, page, content, newContent, matches, mi,
                counts, written, edit, nEdits, calls, viewsError, listFile,
                exitCode, warned, toks, num, out>>

ExtractGuard ==
    /\ ex.phase = "start"
    /\ ex' = extractGuard(ex, content)
    /\ ExtractKeeps

ViewIteration ==
    /\ ex.phase = "views"
    /\ ex' = viewIteration(ex, content)
    /\ ExtractKeeps

LinkIteration ==
    /\ ex.phase = "links"
    /\ ex' = linkIteration(ex, content)
    /\ ExtractKeeps

NextExtract ==
    \/ ExtractGuard
    \/ ViewIteration
    \/ LinkIteration

SpecExtract == InitExtract /\ [][NextExtract]_vars

(***************************************************************************)
(* The templates of a document, by kind and provider                       *)
(***************************************************************************)
\* the positions in ts of the templates of kind k and provider p
Idx(ts, k, p) == {j \in 1..Len(ts) : ts[j].k = k /\ ts[j].p = p}

\* j is the Rank(I, j)-th position of I
Rank(I, j) == Cardinality({x \in I : x <= j})

Nth(I, n) == CHOOSE j \in I : Rank(I, j) = n

\* the link templates of a provider that has an adapter
SupportedLinks(ts) ==
    {j \in 1..Len(ts) : ts[j].k = "l" /\ ts[j].p \in AdapterNames}

\* lastIndex after the regex matched the j-th template of DocOf(ts)
TokEnd(ts, j) ==
    IF j <= Half(ts)
    THEN Len(ViewsField) + Len(RenderAll(SubSeq(ts, 1, j)))
    ELSE Len(ViewsField) + Len(RenderAll(SubSeq(ts, 1, j)))
         + 1 + Len(LinksField)

\* both field markers are followed by text: the links line holds a template
HasFields(ts) == Len(ts) >= 2

ExtractDone ==
    ex.phase = "done" /\ HasFields(toks) /\ content = DocOf(toks)

(***************************************************************************)
(* C1: extract pairs the k-th link template of a supported provider with   *)
(* the value of the k-th view template of that provider, whatever the ids  *)
(* and the templates in between, and the Match list follows the order of   *)
(* the link templates in the document.                                     *)
(***************************************************************************)
C1_FifoPairing ==
    ExtractDone =>
        LET L == {j \in SupportedLinks(toks) : Idx(toks, "v", toks[j].p) # {}}
        IN  /\ Len(ex.matches) = Cardinality(L)
            /\ \A i \in 1..Len(ex.matches) :
                LET j == Nth(L, i)
                    V == Idx(toks, "v", toks[j].p)
                    n == Rank(Idx(toks, "l", toks[j].p), j)
                IN  /\ ex.matches[i].provider = toks[j].p
                    /\ ex.matches[i].link = toks[j].t
                    /\ n <= Cardinality(V) =>
                         ex.matches[i].views =
                             ToNumber(StripValue(toks[Nth(V, n)].t))

\* two links of one provider got the two view values in document order,
\* which is neither the order of the values nor that of the ids
C1_Witness ==
    /\ ExtractDone
    /\ Len(ex.matches) = 2
    /\ ex.matches[1] =
         [link |-> <<"b">>, provider |-> YT, views |-> IntVal(1450)]
    /\ ex.matches[2] =
         [link |-> <<"a">>, provider |-> YT, views |-> IntVal(999)]

(***************************************************************************)
(* C2: a link template of a supported provider whose queue of view entries *)
(* is exhausted gives exactly one warning and no Match.                    *)
(***************************************************************************)
C2_ExhaustedQueueWarns ==
    ExtractDone =>
        LET exhausted ==
                {j \in SupportedLinks(toks) :
                    Rank(Idx(toks, "l", toks[j].p), j)
                        > Cardinality(Idx(toks, "v", toks[j].p))}
        IN  /\ Len(ex.warned) = Cardinality(exhausted)
            /\ Len(ex.matches) = Cardinality(SupportedLinks(toks) \ exhausted)

\* one view entry and two links of one provider: the second link, whose
\* queue is exhausted, is in the Match list with no value and no warning
C2_Witness ==
    /\ ExtractDone
    /\ toks = <<VTok(YT, <<"9", "9", "9">>), LTok(YT, <<"a">>),
                LTok(YT, <<"a">>)>>
    /\ Len(ex.matches) = 2
    /\ ex.matches[2].views = Undefined
    /\ ex.warned = <<>>

(***************************************************************************)
(* C3: a link template whose provider has no adapter is skipped: no        *)
(* warning, no Match, and every queue of view entries stays as it is.      *)
(***************************************************************************)
C3_UnsupportedLinkSkipped ==
    [][\A j \in 1..Len(toks) :
        (/\ ex.phase = "links"
         /\ toks[j].k = "l"
         /\ toks[j].p \notin AdapterNames
         /\ ex'.linkIndex = TokEnd(toks, j))
        => (/\ ex'.warned = ex.warned
            /\ ex'.matches = ex.matches
            /\ ex'.views = ex.views
            /\ ex'.phase = "links")]_vars

\* the loop has just passed an unsupported link while a view entry of a
\* supported provider was queued
C3_Witness ==
    /\ ex.phase = "links"
    /\ \E j \in 1..Len(toks) :
        /\ toks[j].k = "l"
        /\ toks[j].p \notin AdapterNames
        /\ ex.linkIndex = TokEnd(toks, j)
    /\ \E p \in DOMAIN ex.views : ex.views[p] # <<>>

(***************************************************************************)
(* Steps and states of the page pipeline the claims speak about            *)
(***************************************************************************)
\* the step in which the adapter of matches[mi] settles with outcome c
Settles(c) == pc = "adapter" /\ counts' = Append(counts, c)

\* every Match of the page taken last has been processed
PageDone ==
    /\ pc \in {"loop", "edit", "finished"}
    /\ page # 0
    /\ mi = Len(matches) + 1

\* the page taken last and the pages behind it in the initial list
FromPage == [i \in 1..(NumPages - page + 1) |-> page + i - 1]

Scenario999 ==
    Doc(<<VTok(YT, <<"9", "9", "9">>)>>, <<LTok(YT, <<"a", "b", "c">>)>>)

Scenario1450 ==
    Doc(<<VTok(YT, <<"1", ",", "4", "5", "0">>)>>,
        <<LTok(YT, <<"a", "b", "c">>)>>)

(***************************************************************************)
(* C4: when the fetched count is in another display bucket than the        *)
(* recorded one, the first literal occurrence of {{v|P|commafy(recorded)}} *)
(* in the working document becomes {{v|P|commafy(new)}} and the rest of    *)
(* the document stays ({{v|yt|999}} with 1450 becomes {{v|yt|1,450}}).     *)
(***************************************************************************)
C4_FirstOccurrenceReplaced ==
    [][\A c \in Counts :
        (Settles(c) /\ roundV(matches[mi].views) # roundV(c)) =>
            LET old == ViewTemplate(matches[mi].provider, matches[mi].views)
                new == ViewTemplate(matches[mi].provider, c)
                d == Len(new) - Len(old)
                occ == {i \in 1..Len(newContent) :
                           OccursAt(newContent, old, i)}
            IN  IF occ = {} THEN newContent' = newContent
                ELSE \E i \in occ :
                    /\ \A k \in occ : i <= k
                    /\ Len(newContent') = Len(newContent) + d
                    /\ OccursAt(newContent', new, i)
                    /\ \A k \in 1..(i - 1) : newContent'[k] = newContent[k]
                    /\ \A k \in (i + Len(old))..Len(newContent) :
                        newContent'[k + d] = newContent[k]]_vars

\* the scenario of the specification: 999 recorded, 1450 fetched
C4_Witness ==
    /\ content = Scenario999
    /\ counts = <<IntVal(1450)>>
    /\ newContent = Scenario1450

(***************************************************************************)
(* C5: no text written for an earlier Match of the page is rewritten by    *)
(* the replacement of a later Match.                                       *)
(***************************************************************************)
C5_NoDoubleSubstitution ==
    [][\A c \in Counts :
        Settles(c) =>
            ReplacedAt(newContent, matches[mi], c) \notin written]_vars

\* 999 and 1,450 recorded, 1450 and 995 fetched: the 1,450 written for the
\* first Match is what the second Match's replacement rewrote
C5_Witness ==
    /\ content =
         Doc(<<VTok(YT, <<"9", "9", "9">>),
               VTok(YT, <<"1", ",", "4", "5", "0">>)>>,
             <<LTok(YT, <<"a">>), LTok(YT, <<"b">>)>>)
    /\ counts = <<IntVal(1450), IntVal(995)>>
    /\ newContent =
         Doc(<<VTok(YT, <<"9", "9", "5">>),
               VTok(YT, <<"1", ",", "4", "5", "0">>)>>,
             <<LTok(YT, <<"a">>), LTok(YT, <<"b">>)>>)

(***************************************************************************)
(* C6: a page whose only Match has recorded and fetched counts of the same *)
(* display bucket keeps its document as fetched and gets no edit request.  *)
(***************************************************************************)
C6_SameBucketNoEdit ==
    (/\ PageDone
     /\ Len(matches) = 1
     /\ counts # <<>>
     /\ counts[1] \in Counts
     /\ roundV(matches[1].views) = roundV(counts[1]))
    => (/\ newContent = content
        /\ pc # "edit"
        /\ edit = <<>>
        /\ nEdits[page] = 0)

\* 1,450 recorded and 1499 fetched: another count, the same bucket
C6_Witness ==
    /\ PageDone
    /\ Len(matches) = 1
    /\ matches[1].views = IntVal(1450)
    /\ counts = <<IntVal(1499)>>
    /\ ~noEdit

C9_EditIffChanged ==
    /\ \A t \in Titles : nEdits[t] <= 1
    /\ pc = "edit" => edit = [title |-> page, text |-> newContent]
    /\ PageDone => (nEdits[page] = 1 <=> newContent # content)

(***************************************************************************)
(* C9 amended: the same, for a run without --no-edit; with --no-edit no    *)
(* edit is posted.                                                         *)
(***************************************************************************)
C9_EditIffChangedUnlessNoEdit ==
    /\ \A t \in Titles : nEdits[t] <= 1
    /\ pc = "edit" => edit = [title |-> page, text |-> newContent]
    /\ PageDone => (nEdits[page] = 1 <=> (newContent # content /\ ~noEdit))

\* two Matches changed the document and one edit with it is in flight
C9_Witness ==
    /\ PageDone
    /\ pc = "edit"
    /\ Len(matches) = 2
    /\ newContent # content
    /\ edit.text = newContent
    /\ nEdits[page] = 1

(***************************************************************************)
(* roundV alone, on the numbers m * 10^e with m up to MaxMantissa or one   *)
(* of LongMantissas and e up to MaxExp                                     *)
(***************************************************************************)
MaxMantissa == 199

MaxExp == 21

LongMantissas ==
    {995, 999, 1234, 1450, 1499, 99999, 123456, 999999, 1234567, 9999999,
     12345678, 99999999, 123456789, 999999999, 2147483647}

\* Number(...) of a value that is no number, and the value of a Match whose
\* queue was empty
NonNumbers == {NaN, Undefined}

RoundInputs ==
    {Num(m, e) : m \in (0..MaxMantissa) \cup LongMantissas, e \in 0..MaxExp}
        \cup NonNumbers

InitRound ==
    /\ num \in RoundInputs
    /\ out = <<>>
    /\ pc = "round"
    /\ content = <<>>
    /\ ex = ExStart
    /\ toks = <<>>
    /\ PipelineIdle

ApplyRoundV ==
    /\ pc = "round"
    /\ out' = roundV(num)
    /\ pc' = "rounded"
    /\ UNCHANGED <<pages, noEdit, page, content, newContent, matches, mi,
                   counts, written, edit, nEdits, calls, viewsError, listFile,
                   exitCode, warned, ex, toks, num>>

\* util.js 46-61: commafy applied to the input
ApplyCommafy ==
    /\ pc = "round"
    /\ out' = commafy(num)
    /\ pc' = "commafied"
    /\ UNCHANGED <<pages, noEdit, page, content, newContent, matches, mi,
                   counts, written, edit, nEdits, calls, viewsError, listFile,
                   exitCode, warned, ex, toks, num>>

\* the counts recorded on the page of ApplyProcessMatch: eight digits,
\* nine digits, and 10^21
RecordedCounts ==
    {IntVal(99999999), IntVal(100000000), Num(1, 21)}

\* part_001 163-179 on a page with one yt template: the recorded count is
\* the one extracted from the page, the fetched count is the input
ApplyProcessMatch ==
    /\ pc = "round"
    /\ IsNum(num)
    /\ \E v \in RecordedCounts :
        LET doc == Doc(<<VTok(YT, commafy(v))>>, <<LTok(YT, <<"a">>)>>)
            got == extractContent(doc).matches
        IN  /\ content' = doc
            /\ matches' = got
            /\ newContent' = processMatch(doc, got[1], num)
    /\ pc' = "processed"
    /\ UNCHANGED <<pages, noEdit, page, mi, counts, written, edit, nEdits,
                   calls, viewsError, listFile, exitCode, warned, ex, toks,
                   num, out>>

NextRound == ApplyRoundV \/ ApplyCommafy \/ ApplyProcessMatch

SpecRound == InitRound /\ [][NextRound]_vars

\* the number of decimal digits of the integer m
RECURSIVE CountDigits(_)
CountDigits(m) == IF m < 10 THEN 1 ELSE 1 + CountDigits(m \div 10)

\* the number of decimal digits of m * 10^e
DigitCount(v) == IF v.m = 0 THEN 1 ELSE CountDigits(v.m) + v.e

\* the multiple of ten nearest to n, the upper one of two
NearestTen(n) ==
    CHOOSE r \in 0..(n + 5) : r % 10 = 0 /\ r <= n + 5 /\ n + 5 < r + 10

\* the digit-count table of the rounding policy
TableRound(v) ==
    LET d == DigitCount(v)
        n == Value(v)
    IN  CASE d = 1 -> Dec(n)
          [] d = 2 -> Dec(NearestTen(n))
          [] d = 3 -> Dec(n - (n % 10))
          [] d \in 4..6 -> Dec(n - (n % 100))
          [] d \in 7..8 -> Dec(n - (n % 1000))
          [] OTHER -> Unsupported

(***************************************************************************)
(* C10: roundV follows the digit-count table for every non-negative        *)
(* integer: the value itself for one digit, the nearest ten for two, the   *)
(* last one, two or three digits set to 0 for three, four to six and seven *)
(* to eight digits, and "unsupported" for nine digits or more.             *)
(***************************************************************************)
C10_RoundTable == (pc = "rounded" /\ IsNum(num)) => out = TableRound(num)

\* the table does hold of the integers below 10^21, those String(num) writes
\* digit by digit
RoundTableBelowExp ==
    (pc = "rounded" /\ IsNum(num) /\ DigitCount(num) <= ExpDigits)
        => out = TableRound(num)

\* a two-digit count that rounds up to three digits, and a nine-digit one
RoundTableReached ==
    /\ pc = "rounded"
    /\ \/ num = IntVal(95) /\ out = <<"1", "0", "0">>
       \/ num = IntVal(123456789) /\ out = Unsupported

\* 10^21, which String(num) writes as 1e+21: five characters
C10_Witness ==
    /\ pc = "rounded"
    /\ num = Num(1, 21)
    /\ out = <<"1", "e", "+", "0", "0">>

\* the display is a count: decimal digits only
IsNumeric(str) == str # <<>> /\ \A k \in 1..Len(str) : str[k] \in Digits

\* the longest prefix of str made of decimal digits
LeadingDigits(str) ==
    LET n == CHOOSE k \in 0..Len(str) :
                 /\ \A j \in 1..k : str[j] \in Digits
                 /\ k = Len(str) \/ str[k + 1] \notin Digits
    IN  SubSeq(str, 1, n)

\* parseInt(str) for a str without leading whitespace, sign or radix prefix
parseInt(str) ==
    IF LeadingDigits(str) = <<>> THEN NaN
    ELSE IntVal(DigitsValue(LeadingDigits(str)))

(***************************************************************************)
(* C11: roundV is idempotent on what it displays: when roundV(n) is a      *)
(* count, roundV of that count is the same string, also for the two-digit  *)
(* n that round up to 100.                                                 *)
(***************************************************************************)
C11_RoundIdempotent ==
    (pc = "rounded" /\ IsNum(num) /\ IsNumeric(out))
        => roundV(parseInt(out)) = out

\* 95 is displayed as 100, and 100 as 100
C11_Witness ==
    /\ pc = "rounded"
    /\ num = IntVal(95)
    /\ parseInt(out) = IntVal(100)
    /\ roundV(IntVal(100)) = out

\* the adapter call of a Match is issued by this step
CallStarts == pc' = "adapter" /\ (pc # "adapter" \/ mi' # mi)

\* the outcome c of the call in flight folded into the working document
Folded(c) ==
    IF c \in {Failed("error"), Failed("quota")} THEN newContent
    ELSE processMatch(newContent, matches[mi], c)

(***************************************************************************)
(* C12: processing is strictly sequential. One request is in flight at a   *)
(* time: an edit request only while it is awaited, an adapter call only    *)
(* with all earlier calls of the page settled. The call for a Match starts *)
(* only in the step that settles the call before it and folds the result   *)
(* into the working document, and a page is fetched only when no edit      *)
(* request is pending.                                                     *)
(***************************************************************************)
C12_StrictlySequential ==
    /\ [](/\ edit # <<>> <=> pc = "edit"
          /\ pc = "adapter" =>
                (mi \in 1..Len(matches) /\ Len(counts) = mi - 1)
          /\ pc = "getPage" => (content = <<>> /\ counts = <<>>))
    /\ [][/\ (CallStarts /\ mi' > 1) =>
               (/\ pc = "adapter"
                /\ mi' = mi + 1
                /\ Len(counts') = mi
                /\ newContent' = Folded(counts'[mi]))
          /\ (CallStarts /\ mi' = 1) => (pc = "getPage" /\ counts' = <<>>)
          /\ pc' = "getPage" => (pc = "loop" /\ edit = <<>>)]_vars

\* the second call of a page is in flight with the first replacement made
C12_Witness ==
    /\ pc = "adapter"
    /\ mi = 2
    /\ counts = <<IntVal(1450)>>
    /\ newContent # content
    /\ edit = <<>>

(***************************************************************************)
(* C13: a fetch that brings no markup (API error, missing page) ends the   *)
(* processing of that page only: the step extracts nothing, calls no       *)
(* adapter, posts no edit, leaves the queue and the process as they are,   *)
(* and the driver takes the next page of the queue.                        *)
(***************************************************************************)
C13_FetchFailureSkipsPage ==
    /\ [][(pc = "getPage" /\ content' = <<>>) =>
            (/\ pc' = "loop"
             /\ matches' = <<>>
             /\ calls' = calls
             /\ counts' = <<>>
             /\ nEdits' = nEdits
             /\ edit' = <<>>
             /\ pages' = pages
             /\ exitCode' = -1)]_vars
    /\ []((pc = "loop" /\ pages # <<>>) => ENABLED Shift)

\* the fetch of the first page failed and the second page is taken
C13_Witness ==
    /\ pc = "loop"
    /\ page = 1
    /\ content = <<>>
    /\ pages = <<2>>
    /\ ENABLED Shift

\* the last adapter call of the page failed for the quota
QuotaClassified ==
    counts # <<>> /\ counts[Len(counts)] = Failed("quota")

(***************************************************************************)
(* C14: without a quota failure the run ends normally. Every run reaches   *)
(* the finished state unless a quota failure occurs; as long as none has   *)
(* occurred the pages are taken one by one in the order of the list, each  *)
(* once; and the run finishes with the whole list taken, whatever failed   *)
(* on the way.                                                             *)
(***************************************************************************)
C14_TerminatesAbsentQuota ==
    /\ <>(pc = "finished" \/ QuotaClassified)
    /\ [][(pc' = "getPage" /\ ~QuotaClassified) => page' = page + 1]_vars
    /\ [](pc = "finished" =>
            (pages = <<>> /\ page = NumPages /\ exitCode = -1))

\* the run finished although the adapter failed on the last page
C14_Witness ==
    /\ pc = "finished"
    /\ page = NumPages
    /\ counts # <<>>
    /\ counts[Len(counts)] = Failed("error")

(***************************************************************************)
(* C15: nothing is retried within a run. The adapter is called at most     *)
(* once for each Match, at most one edit is posted for a page, and when    *)
(* the edit request settles, with or without an error, the page is not     *)
(* put back in the queue.                                                  *)
(***************************************************************************)
C15_NothingRetried ==
    /\ [](/\ \A i \in 1..Len(calls) : calls[i] <= 1
          /\ \A t \in Titles : nEdits[t] <= 1)
    /\ [][pc = "edit" => (pc' = "loop" /\ pages' = pages)]_vars

\* the adapter is called a second time for the first Match of a page
C15_Witness ==
    /\ pc = "adapter"
    /\ mi = 1
    /\ calls = <<2>>

(***************************************************************************)
(* C16: once an adapter failure was classified as quota exhaustion the run *)
(* stops: no page is fetched, no adapter called and no edit posted after   *)
(* it, whether list.txt could be written or not.                           *)
(***************************************************************************)
C16_QuotaStopsRun ==
    [][QuotaClassified => pc' \notin {"getPage", "adapter", "edit"}]_vars

\* the page interrupted by the quota failure is being fetched again
C16_Witness ==
    /\ pc = "getPage"
    /\ page = 1
    /\ calls = <<1>>
    /\ listFile = NoFile
    /\ exitCode = -1

\* when list.txt is written the run does stop
QuotaStopsRunWhenWritten ==
    /\ [](pc = "exited" => (QuotaClassified /\ ~ENABLED Next))
    /\ [][pc = "writeFile" => pc' \in {"exited", "loop"}]_vars

(***************************************************************************)
(* C17: in a run with --no-edit no edit request is ever posted for any     *)
(* page, and after the last Match of a page the driver goes back to the    *)
(* loop for the next page.                                                 *)
(***************************************************************************)
C17_NoEditNeverPosts ==
    /\ [](noEdit =>
            (/\ \A t \in Titles : nEdits[t] = 0
             /\ edit = <<>>
             /\ pc # "edit"))
    /\ [][(noEdit /\ pc = "adapter" /\ mi' = Len(matches) + 1) =>
            (pc' = "loop" /\ pages' = pages)]_vars

\* with --no-edit a page whose document changed is done and nothing was
\* posted for it
C17_Witness ==
    /\ noEdit
    /\ PageDone
    /\ pc = "loop"
    /\ newContent # content
    /\ nEdits[page] = 0

\* a bilibili Match with an id of the audio-only kind
AudioId(match) ==
    /\ match.provider = BB
    /\ Len(match.link) >= 2
    /\ SubSeq(match.link, 1, 2) = <<"a", "u">>

(***************************************************************************)
(* C18: for an id with the prefix "au" the bilibili adapter makes no       *)
(* request, so it cannot fail, and returns the recorded count; the working *)
(* document is left as it is by such a Match.                              *)
(***************************************************************************)
C18_AudioIdKeepsCount ==
    [][(pc = "adapter" /\ AudioId(matches[mi])) =>
         (/\ counts' = Append(counts, matches[mi].views)
          /\ newContent' = newContent
          /\ pc' # "writeFile")]_vars

\* the page with {{l|bb|au1}} is done, with the recorded 999 as the count
C18_Witness ==
    /\ PageDone
    /\ Len(matches) = 1
    /\ AudioId(matches[1])
    /\ counts = <<IntVal(999)>>
    /\ newContent = content

C20_FailedConversionChanged ==
    [][\A c \in Counts :
        (Settles(c) /\ matches[mi].views = NaN) =>
            /\ ~SameBucket(matches[mi].views, c)
            /\ newContent' =
                 ReplaceFirst(newContent,
                              ViewTemplate(matches[mi].provider, NaN),
                              ViewTemplate(matches[mi].provider, c))]_vars

\* {{v|yt|x}} with a count of nine digits, itself displayed "unsupported"
C20_Witness ==
    /\ PageDone
    /\ Len(matches) = 1
    /\ matches[1].views = NaN
    /\ counts = <<IntVal(123456789)>>
    /\ roundV(counts[1]) = Unsupported

\* no number is displayed as NaN is
NaNDisplayApart ==
    (pc = "rounded" /\ IsNum(num)) => out # roundV(NaN)

\* the part of a template value before its first '|'
BeforePipe(t) == SubSeq(t, 1, RunEnd(t, 1, {"|"}) - 1)

KeptChar(c) == c \notin {",", "."} /\ ~IsSpace(c)

\* a template value without its commas, periods and whitespace and without
\* everything from the first '|' on, as a number
CleanedNumber(t) == ToNumber(SelectSeq(BeforePipe(t), KeptChar))

\* the {{v}} loop has ended and the {{l}} loop has not started
ViewsQueued ==
    /\ ex.phase = "links"
    /\ ex.linkIndex = 0
    /\ ex.matches = <<>>
    /\ ex.warned = <<>>
    /\ content = DocOf(toks)

\* the providers with an adapter that have a {{v}} template in ts
QueuedProviders(ts) ==
    {ts[j].p : j \in {i \in 1..Len(ts) :
                         ts[i].k = "v" /\ ts[i].p \in AdapterNames}}

(***************************************************************************)
(* C21: after the {{v}} loop the queue of every provider with an adapter   *)
(* holds, in document order, the values of its {{v}} templates, each       *)
(* converted to a number after the removal of commas, periods, whitespace  *)
(* and of everything from the first '|' on; the {{v}} templates of other   *)
(* provider codes are in no queue.                                         *)
(***************************************************************************)
C21_ViewsQueuedCleaned ==
    ViewsQueued =>
        /\ DOMAIN ex.views = QueuedProviders(toks)
        /\ \A p \in DOMAIN ex.views :
            LET V == Idx(toks, "v", p)
            IN  /\ Len(ex.views[p]) = Cardinality(V)
                /\ \A n \in 1..Len(ex.views[p]) :
                    ex.views[p][n] = CleanedNumber(toks[Nth(V, n)].t)

\* {{v|nn|1.2 |x(newline)8}} is queued as 128: the 8 behind the line
\* terminator is kept
C21_Witness ==
    /\ ViewsQueued
    /\ toks[1] = VTok(NN, <<"1", ".", "2", " ", "|", "x", NL, "8">>)
    /\ CleanedNumber(toks[1].t) = IntVal(12)
    /\ ex.views[NN] = <<IntVal(128)>>

\* the queues do hold the values in document order, as the code converts
\* them
ViewsQueuedInOrder ==
    ViewsQueued =>
        /\ DOMAIN ex.views = QueuedProviders(toks)
        /\ \A p \in DOMAIN ex.views :
            LET V == Idx(toks, "v", p)
            IN  /\ Len(ex.views[p]) = Cardinality(V)
                /\ \A n \in 1..Len(ex.views[p]) :
                    ex.views[p][n] = ToNumber(StripValue(toks[Nth(V, n)].t))

\* and the conversion is the stated one for a value holding no line
\* terminator behind a '|'
ViewsCleanedOnOneLine ==
    ViewsQueued =>
        \A j \in 1..Len(toks) :
            (toks[j].k = "v" /\ \A i \in 1..Len(toks[j].t) : toks[j].t[i] # NL)
                => ToNumber(StripValue(toks[j].t)) = CleanedNumber(toks[j].t)

\* the text of a field marker occurs in s
Present(s, field) ==
    \E i \in 1..Len(s) : OccursAt(s, Tail(field), i)

\* a line terminator follows an occurrence of the field marker
Terminated(s, field) ==
    \E i \in 1..Len(s) :
        OccursAt(s, Tail(field), i) /\ \E k \in i..Len(s) : s[k] = NL

\* #extractContent returned [] from its guard: nothing scanned or logged
ReturnedAtOnce == ex' = [ExStart EXCEPT !.phase = "done"]

(***************************************************************************)
(* C22: for a document with neither a views= nor a links= marker extract   *)
(* returns the empty list at once: no template is scanned and no warning   *)
(* is logged.                                                              *)
(***************************************************************************)
C22_NoMarkerReturnsEmpty ==
    [][(/\ ex.phase = "start"
        /\ ~Present(content, ViewsField)
        /\ ~Present(content, LinksField)) => ReturnedAtOnce]_vars

\* a view and a link template of a supported provider, and no marker
C22_Witness ==
    /\ toks = <<VTok(YT, <<"9", "9", "9">>), LTok(YT, <<"a">>)>>
    /\ content = Bare(toks)
    /\ ex = [ExStart EXCEPT !.phase = "done"]

(***************************************************************************)
(* C29: extract also returns the empty list, with no warning, for a        *)
(* document with one of the two markers only, and for one whose marker     *)
(* line has no line terminator, whatever templates it holds.               *)
(***************************************************************************)
C29_OneMarkerReturnsEmpty ==
    [][(/\ ex.phase = "start"
        /\ \/ Present(content, ViewsField) # Present(content, LinksField)
           \/ Present(content, ViewsField)
                /\ ~Terminated(content, ViewsField)
           \/ Present(content, LinksField)
                /\ ~Terminated(content, LinksField)) => ReturnedAtOnce]_vars

\* a view and a link template of a supported provider on a views line, or
\* on the two lines without the last line terminator
C29_Witness ==
    /\ toks = <<VTok(YT, <<"9", "9", "9">>), LTok(YT, <<"a">>)>>
    /\ content \in {ViewsOnly(toks), Unterminated(toks)}
    /\ ex = [ExStart EXCEPT !.phase = "done"]

\* the classification as it is stated: the message starts with the first
\* literal, or holds the second one, or the response carries code 403
StatedQuota(e) ==
    \/ IndexOf(e.message, DailyLimit, 1) = 1
    \/ IndexOf(e.message, QuotaWord, 1) # 0
    \/ e.response = Response(403)

\* the step caught an error thrown by the adapter called for a Match
Caught == pc = "adapter" /\ viewsError'.caught

(***************************************************************************)
(* C23: an adapter failure is treated as quota exhaustion exactly when its *)
(* message starts with "Daily Limit Exceeded", or its message contains     *)
(* "quota", or its response carries code 403, whatever the provider of the *)
(* Match; every other failure, a non-2xx/3xx response included, only skips *)
(* the current Match.                                                      *)
(***************************************************************************)
C23_QuotaClassification ==
    [][Caught =>
        IF StatedQuota(viewsError')
        THEN /\ counts' = Append(counts, Failed("quota"))
             /\ pages' = <<page>> \o pages
             /\ pc' = "writeFile"
             /\ newContent' = newContent
        ELSE /\ counts' = Append(counts, Failed("error"))
             /\ newContent' = newContent
             /\ mi' = mi + 1
             /\ pages' = pages
             /\ exitCode' = exitCode
             /\ pc' \in {"adapter", "edit", "loop"}]_vars

\* a Match of another provider than yt fails with a 403 response and
\* list.txt is to be written; the Match before it failed with a 404
C23_Witness ==
    /\ pc = "writeFile"
    /\ matches[mi].provider = NN
    /\ viewsError.response = Response(403)
    /\ ~startsWith(viewsError.message, DailyLimit)
    /\ ~includes(viewsError.message, QuotaWord)

\* a non-2xx/3xx response other than 403 skipped the Match
NonQuotaSkips ==
    /\ viewsError.code = "ERR_NON_2XX_3XX_RESPONSE"
    /\ viewsError.response = Response(404)
    /\ counts # <<>>
    /\ counts[Len(counts)] = Failed("error")

\* the view templates of s in document order: provider and text
RECURSIVE ViewTemplates(_, _)
ViewTemplates(s, from) ==
    LET r == VIEW_REGEX(s, from)
    IN  IF ~r.found THEN <<>>
        ELSE <<[provider |-> r.provider, value |-> r.value]>>
                 \o ViewTemplates(s, r.lastIndex)

\* s with every view template taken out and a mark left in its place
RECURSIVE Outside(_, _)
Outside(s, from) ==
    LET r == VIEW_REGEX(s, from)
    IN  IF ~r.found THEN SubSeq(s, from + 1, Len(s))
        ELSE SubSeq(s, from + 1, r.lastIndex - Len(r.value) - 9)
                 \o <<"#">> \o Outside(s, r.lastIndex)

\* the place among the view templates of the fetched markup of the one
\* paired with the Match i: the n-th of its provider for the n-th link of
\* that provider, 0 if there is none
Paired(i) ==
    LET P == matches[i].provider
        n == Cardinality({j \in 1..i : matches[j].provider = P})
        T == ViewTemplates(content, 0)
        K == {k \in 1..Len(T) : T[k].provider = P}
    IN  IF n <= Cardinality(K) THEN Nth(K, n) ELSE 0

\* the Match i stayed in its bucket, or its adapter call failed
Stayed(i) ==
    \/ counts[i] \notin Counts
    \/ SameBucket(matches[i].views, counts[i])

TemplatesKept ==
    \A i \in 1..Len(matches) :
        (Stayed(i) /\ Paired(i) # 0) =>
            /\ Paired(i) <= Len(ViewTemplates(newContent, 0))
            /\ ViewTemplates(newContent, 0)[Paired(i)]
                 = ViewTemplates(content, 0)[Paired(i)]

(***************************************************************************)
(* C24: the final document of a page differs from the fetched markup only  *)
(* inside the view templates of the Matches whose rounded count changed:   *)
(* the view template paired with a Match that stayed in its bucket is the  *)
(* same in the final document, and so is all text outside view templates,  *)
(* also when several view templates of the page have the same text.        *)
(***************************************************************************)
C24_ChangesOnlyInChangedTemplates ==
    (PageDone /\ matches # <<>>) =>
        /\ Outside(newContent, 0) = Outside(content, 0)
        /\ TemplatesKept

\* two {{v|yt|999}}: the first Match stays at 995, the second gets 1450,
\* and the first template is the one rewritten
C24_Witness ==
    /\ PageDone
    /\ content =
         Doc(<<VTok(YT, <<"9", "9", "9">>), VTok(YT, <<"9", "9", "9">>)>>,
             <<LTok(YT, <<"a">>), LTok(YT, <<"b">>)>>)
    /\ counts = <<IntVal(995), IntVal(1450)>>
    /\ newContent =
         Doc(<<VTok(YT, <<"1", ",", "4", "5", "0">>),
               VTok(YT, <<"9", "9", "9">>)>>,
             <<LTok(YT, <<"a">>), LTok(YT, <<"b">>)>>)

\* the text outside the view templates is never touched
OutsideKept ==
    (PageDone /\ matches # <<>>) =>
        Outside(newContent, 0) = Outside(content, 0)

\* no two view templates of the fetched markup record the same count for
\* the same provider
DistinctCounts ==
    LET T == ViewTemplates(content, 0)
    IN  \A j, k \in 1..Len(T) :
            (/\ T[j].provider = T[k].provider
             /\ ToNumber(StripValue(T[j].value))
                  = ToNumber(StripValue(T[k].value))) => j = k

\* the claim holds for the pages whose view templates record different
\* counts
DistinctCountsKept ==
    (PageDone /\ matches # <<>> /\ DistinctCounts) => TemplatesKept

\* the Matches ms from the i-th on processed on doc, the adapters
\* answering cs: a failed call leaves the document as it is
RECURSIVE RunMatches(_, _, _, _)
RunMatches(doc, ms, cs, i) ==
    IF i > Len(ms) THEN doc
    ELSE RunMatches(IF cs[i] \in Counts THEN processMatch(doc, ms[i], cs[i])
                    ELSE doc,
                    ms, cs, i + 1)

\* the final document of a run on doc with the adapters answering cs
Rerun(doc, cs) == RunMatches(doc, extractContent(doc).matches, cs, 1)

\* every adapter call of the page returned a count
AllCounted ==
    /\ Len(counts) = Len(matches)
    /\ \A i \in 1..Len(counts) : counts[i] \in Counts

(***************************************************************************)
(* C25: the pipeline converges after one edit. When the edit of a page is  *)
(* posted, a second run on the posted document in which every adapter      *)
(* returns the same count as before leaves that document unchanged, so it  *)
(* posts no edit.                                                          *)
(***************************************************************************)
C25_ConvergesAfterOneEdit ==
    (pc = "edit" /\ AllCounted) => Rerun(edit.text, counts) = edit.text

\* two {{v|yt|999}} with 995 and 1450 fetched: {{v|yt|1,450}}{{v|yt|999}}
\* is posted, and the second run turns it into {{v|yt|995}}{{v|yt|1,450}}
C25_Witness ==
    /\ pc = "edit"
    /\ counts = <<IntVal(995), IntVal(1450)>>
    /\ edit.text =
         Doc(<<VTok(YT, <<"1", ",", "4", "5", "0">>),
               VTok(YT, <<"9", "9", "9">>)>>,
             <<LTok(YT, <<"a">>), LTok(YT, <<"b">>)>>)
    /\ Rerun(edit.text, counts) =
         Doc(<<VTok(YT, <<"9", "9", "5">>),
               VTok(YT, <<"1", ",", "4", "5", "0">>)>>,
             <<LTok(YT, <<"a">>), LTok(YT, <<"b">>)>>)

\* the run of the model is the run computed by Rerun
RerunIsTheRun ==
    (PageDone /\ AllCounted) => Rerun(content, counts) = newContent

\* a page with one Match converges
OneMatchConverges ==
    (pc = "edit" /\ AllCounted /\ Len(matches) = 1) =>
        Rerun(edit.text, counts) = edit.text

\* a page whose view templates record different counts converges
DistinctCountsConverge ==
    (pc = "edit" /\ AllCounted /\ DistinctCounts) =>
        Rerun(edit.text, counts) = edit.text

\* the decimal digits of the integer m * 10^e
DecimalDigits(v) == IF v.m = 0 THEN <<"0">> ELSE Dec(v.m) \o Zeros(v.e)

\* str without its commas
RECURSIVE Ungrouped(_)
Ungrouped(str) ==
    IF str = <<>> THEN <<>>
    ELSE IF Head(str) = "," THEN Ungrouped(Tail(str))
    ELSE <<Head(str)>> \o Ungrouped(Tail(str))

\* str is digits with a comma before each complete group of three counted
\* from the right, and none at the start
GroupedByThree(str) ==
    /\ str # <<>>
    /\ str[1] # ","
    /\ \A k \in 1..Len(str) :
        IF (Len(str) - k + 1) % 4 = 0 THEN str[k] = ","
        ELSE str[k] \in Digits

\* what the next extraction reads from the text commafy wrote
ReadBack(str) == ToNumber(StripValue(str))

RoundTrip ==
    /\ GroupedByThree(out)
    /\ Ungrouped(out) = DecimalDigits(num)
    /\ StringOf(ReadBack(out)) = StringOf(num)

(***************************************************************************)
(* C26: commafy and the parser of the view values round-trip. For every    *)
(* non-negative integer n, commafy(n) is the digits of n with a comma      *)
(* before each complete group of three digits counted from the right and   *)
(* none at the start, and the text read back by the extraction (separators *)
(* removed, then converted) is the number n.                               *)
(***************************************************************************)
C26_CommafyRoundTrip == (pc = "commafied" /\ IsNum(num)) => RoundTrip

\* 1.5e22: commafy groups the characters of the exponent form, and the
\* text is read back as 1.5e23
C26_Witness ==
    /\ pc = "commafied"
    /\ num = Num(15, 21)
    /\ out = <<"1", ",", ".", "5", "e", ",", "+", "2", "2">>
    /\ ReadBack(out) = Num(15, 22)

\* the round trip holds of the integers below 10^21
RoundTripBelowExp ==
    (pc = "commafied" /\ IsNum(num) /\ DigitCount(num) <= ExpDigits)
        => RoundTrip

\* 1450 is written 1,450 and read back as 1450; so is 123456789
RoundTripReached ==
    /\ pc = "commafied"
    /\ \/ num = IntVal(1450) /\ out = <<"1", ",", "4", "5", "0">>
       \/ /\ num = IntVal(123456789)
          /\ Len(out) = 11
          /\ ReadBack(out) = num

\* the recorded and the fetched count of the page of ApplyProcessMatch
\* have nine digits or more
BothNineDigits ==
    /\ pc = "processed"
    /\ DigitCount(matches[1].views) >= 9
    /\ DigitCount(num) >= 9

(***************************************************************************)
(* C27: when the recorded and the fetched count of a Match both have nine  *)
(* digits or more, processMatch returns the working document unchanged,    *)
(* whatever the two values are.                                            *)
(***************************************************************************)
C27_NineDigitsUnchanged == BothNineDigits => newContent = content

\* 100,000,000 recorded and 10^21 fetched: the template is rewritten
C27_Witness ==
    /\ BothNineDigits
    /\ matches[1].views = IntVal(100000000)
    /\ num = Num(1, 21)
    /\ newContent =
         Doc(<<VTok(YT, <<"1", "e", ",", "+", "2", "1">>)>>,
             <<LTok(YT, <<"a">>)>>)

\* the claim holds of the counts below 10^21
NineDigitsBelowExpUnchanged ==
    (/\ BothNineDigits
     /\ DigitCount(matches[1].views) <= ExpDigits
     /\ DigitCount(num) <= ExpDigits) => newContent = content

\* 100,000,000 recorded and 2147483647 fetched, and nothing rewritten;
\* 99,999,999 recorded and 123456789 fetched, and the template rewritten
NineDigitsReached ==
    /\ pc = "processed"
    /\ \/ /\ matches[1].views = IntVal(100000000)
          /\ num = IntVal(2147483647)
          /\ newContent = content
       \/ /\ matches[1].views = IntVal(99999999)
          /\ num = IntVal(123456789)
          /\ newContent # content

\* a view template with an annotation: {{v|P|N|label}}, the label being
\* plain text (a label that opens a template of its own is no label: the
\* closing braces then belong to the inner template)
Annotated(t) ==
    /\ \E k \in 1..Len(t.value) : t.value[k] = "|"
    /\ \A k \in 1..Len(t.value) : t.value[k] # "{"

\* the Matches paired with an annotated template have the count N of it
AnnotatedParsed ==
    \A i \in 1..Len(matches) :
        LET T == ViewTemplates(content, 0)
        IN  (Paired(i) # 0 /\ Annotated(T[Paired(i)])) =>
                matches[i].views = CleanedNumber(T[Paired(i)].value)

\* the step leaves the annotated templates of the working document as they
\* are, each at its place among the view templates
AnnotatedKept ==
    LET T == ViewTemplates(newContent, 0)
        U == ViewTemplates(newContent', 0)
    IN  /\ Len(U) = Len(T)
        /\ \A k \in 1..Len(T) : Annotated(T[k]) => U[k] = T[k]

\* the literal #processMatch looks for occurs in the working document
LiteralOccurs ==
    \E i \in 1..Len(newContent) :
        OccursAt(newContent,
                 ViewTemplate(matches[mi].provider, matches[mi].views), i)

QuotaDetected ==
    \/ pc \in {"writeFile", "exited"}
    \/ calls # <<>> /\ calls[1] >= 2

(***************************************************************************)
(* C30: when quota exhaustion is detected while a page is processed, no    *)
(* edit is submitted for that page in this run, also when earlier Matches  *)
(* of the page changed the working document: the changes are discarded,    *)
(* and the page is the first entry of the persisted list.                  *)
(***************************************************************************)
C30_QuotaPageNotEdited ==
    /\ QuotaDetected => (nEdits[page] = 0 /\ edit = <<>>)
    /\ pc = "exited" => (listFile.titles # <<>> /\ listFile.titles[1] = page)

\* the quota ran out on the second Match of the page, list.txt could not
\* be written, and the second pass over the page posts an edit
C30_Witness ==
    /\ pc = "edit"
    /\ calls = <<2, 2>>
    /\ edit = [title |-> page, text |-> newContent]
    /\ nEdits[page] = 1

\* when list.txt is written the claim holds: no edit for the page, which
\* is the first title of the list
QuotaPageNotEditedWhenWritten ==
    /\ pc \in {"writeFile", "exited"} => (nEdits[page] = 0 /\ edit = <<>>)
    /\ pc = "exited" => (listFile.titles # <<>> /\ listFile.titles[1] = page)

\* the first Match changed the working document, the quota ran out on the
\* second and the run ended without an edit for the page
QuotaDiscardsChanges ==
    /\ pc = "exited"
    /\ mi = 2
    /\ newContent # content
    /\ ~noEdit
    /\ nEdits[page] = 0

====
